---- MODULE Spec2Model ----
(***************************************************************************)
(* A model of the two-level state machine of minecraft-server-cli          *)
(* (src/src/machine.rs): the Configuration Record with its string-keyed    *)
(* get/set, and Machine::dispatch.  Rust's Option<T> is modelled as a      *)
(* sequence of length at most one: None is <<>>, Some(x) is <<x>>.  A      *)
(* panic (a failed .expect) ends the process: it is the flag `panicked`,   *)
(* after which nothing is dispatched any more.                             *)
(***************************************************************************)
EXTENDS Integers, Sequences, FiniteSets, TLC

\* ------------------------------------------------------------------ bounds

\* The number of dispatch calls of one run that the model follows.
MaxDispatches == 3

\* ------------------------------------------------------- Option<T> helpers

None == <<>>

Some(x) == <<x>>

\* ------------------------------------------------ machine.rs: the data types

\* enum AppState
AppState == {"ChoiceMenu", "Running", "Exited", "EditingConfiguration"}

\* enum AppEvent
AppEvent == {"StartServer", "Exit", "SelectedOption"}

\* enum EditorState
EditorState == {"SelectOnOff", "NumberInput", "TextInput", "SelectValueOrNone"}

\* enum EditorEvent
EditorEvent == {"SubmitValue", "SelectedValue", "SelectedNone"}

\* enum Event { AppEvent(AppEvent), EditorEvent(EditorEvent) }
Event == [kind : {"AppEvent"}, event : AppEvent]
            \cup [kind : {"EditorEvent"}, event : EditorEvent]

\* enum ConfigurationOptionTypeFlag (a bit flag set is a subset of these)
ConfigurationOptionTypeFlag == {"Bool", "U16", "String", "Option"}

\* enum ConfigurationOptionType: the three variants of a typed value
Bool(value) == [kind |-> "Bool", value |-> value]

OptionU16(value) == [kind |-> "OptionU16", value |-> value]

OptionString(value) == [kind |-> "OptionString", value |-> value]

\* struct ConfigurationOption.  The display name and the description are
\* carried along by the machine and never read by it; the model keeps the
\* two fields the machine reads.
ConfigurationOption(property, type) == [property |-> property, type |-> type]

\* enum Payload: its two variants
Payload_ConfigurationOption(option) == [kind |-> "ConfigurationOption", option |-> option]

Payload_ConfigurationOptionType(value) == [kind |-> "ConfigurationOptionType", value |-> value]

\* Event::AppEvent(event) and Event::EditorEvent(event)
Event_AppEvent(e) == [kind |-> "AppEvent", event |-> e]

Event_EditorEvent(e) == [kind |-> "EditorEvent", event |-> e]

\* The eleven fields of struct MinecraftServerConfiguration, in its order.
Properties ==
    << "bonusChest", "demo", "eraseCache", "forceUpgrade", "initSettings",
       "gui", "port", "safeMode", "singleplayer", "universe", "world" >>

BoolProperties ==
    { "bonusChest", "demo", "eraseCache", "forceUpgrade", "initSettings",
      "gui", "safeMode", "singleplayer" }

\* A variant of set whose OptionU16 arm writes port whatever the name.
set_AnyNameIsPort(self, property, value) ==
    IF value.kind = "Bool" /\ property \in BoolProperties
    THEN [self EXCEPT ![property] = value.value]
    ELSE IF value.kind = "OptionU16"
    THEN [self EXCEPT !.port = value.value]
    ELSE IF value.kind = "OptionString" /\ property \in {"universe", "world"}
    THEN [self EXCEPT ![property] = value.value]
    ELSE self

\* A variant of set whose "universe" arm also writes world.
set_UniverseAlsoWorld(self, property, value) ==
    IF value.kind = "Bool" /\ property \in BoolProperties
    THEN [self EXCEPT ![property] = value.value]
    ELSE IF value.kind = "OptionU16" /\ property = "port"
    THEN [self EXCEPT !.port = value.value]
    ELSE IF value.kind = "OptionString" /\ property = "universe"
    THEN [self EXCEPT !.universe = value.value, !.world = value.value]
    ELSE IF value.kind = "OptionString" /\ property = "world"
    THEN [self EXCEPT !.world = value.value]
    ELSE self

\* MinecraftServerConfiguration::set: on the variant first, then on the name.
set(self, property, value) ==
    IF value.kind = "Bool" THEN
        CASE property = "bonusChest"   -> [self EXCEPT !.bonusChest = value.value]
          [] property = "demo"         -> [self EXCEPT !.demo = value.value]
          [] property = "eraseCache"   -> [self EXCEPT !.eraseCache = value.value]
          [] property = "forceUpgrade" -> [self EXCEPT !.forceUpgrade = value.value]
          [] property = "initSettings" -> [self EXCEPT !.initSettings = value.value]
          [] property = "gui"          -> [self EXCEPT !.gui = value.value]
          [] property = "safeMode"     -> [self EXCEPT !.safeMode = value.value]
          [] property = "singleplayer" -> [self EXCEPT !.singleplayer = value.value]
          [] OTHER                     -> self
    ELSE IF value.kind = "OptionU16" THEN
        CASE property = "port" -> [self EXCEPT !.port = value.value]
          [] OTHER             -> self
    ELSE IF value.kind = "OptionString" THEN
        CASE property = "universe" -> [self EXCEPT !.universe = value.value]
          [] property = "world"    -> [self EXCEPT !.world = value.value]
          [] OTHER                 -> self
    ELSE self

\* A variant of get whose "universe" arm reads world.
get_UniverseReadsWorld(self, property) ==
    IF property \in BoolProperties THEN Bool(self[property])
    ELSE IF property = "port" THEN OptionU16(self.port)
    ELSE IF property \in {"universe", "world"} THEN OptionString(self.world)
    ELSE OptionString(None)

\* MinecraftServerConfiguration::get
get(self, property) ==
    CASE property = "bonusChest"   -> Bool(self.bonusChest)
      [] property = "demo"         -> Bool(self.demo)
      [] property = "eraseCache"   -> Bool(self.eraseCache)
      [] property = "forceUpgrade" -> Bool(self.forceUpgrade)
      [] property = "initSettings" -> Bool(self.initSettings)
      [] property = "gui"          -> Bool(self.gui)
      [] property = "port"         -> OptionU16(self.port)
      [] property = "safeMode"     -> Bool(self.safeMode)
      [] property = "singleplayer" -> Bool(self.singleplayer)
      [] property = "universe"     -> OptionString(self.universe)
      [] property = "world"        -> OptionString(self.world)
      [] OTHER                     -> OptionString(None)

\* ------------------------------------------------------ main.rs: the data

\* get_configuration: the documented defaults.
default_configuration ==
    [ bonusChest |-> TRUE, demo |-> FALSE, eraseCache |-> FALSE,
      forceUpgrade |-> FALSE, initSettings |-> FALSE, gui |-> FALSE,
      port |-> None, safeMode |-> FALSE, singleplayer |-> FALSE,
      universe |-> None, world |-> None ]

\* A variant of the catalogue whose gui descriptor is {Bool, Option}.
get_config_option_info_OptionalGui ==
    << ConfigurationOption("bonusChest", {"Bool"}),
       ConfigurationOption("demo", {"Bool"}),
       ConfigurationOption("eraseCache", {"Bool"}),
       ConfigurationOption("forceUpgrade", {"Bool"}),
       ConfigurationOption("initSettings", {"Bool"}),
       ConfigurationOption("gui", {"Bool", "Option"}),
       ConfigurationOption("port", {"Option", "U16"}),
       ConfigurationOption("safeMode", {"Bool"}),
       ConfigurationOption("singleplayer", {"Bool"}),
       ConfigurationOption("universe", {"Option", "String"}),
       ConfigurationOption("world", {"Option", "String"}) >>

\* get_config_option_info: the Option Catalogue, in its order.
get_config_option_info ==
    << ConfigurationOption("bonusChest", {"Bool"}),
       ConfigurationOption("demo", {"Bool"}),
       ConfigurationOption("eraseCache", {"Bool"}),
       ConfigurationOption("forceUpgrade", {"Bool"}),
       ConfigurationOption("initSettings", {"Bool"}),
       ConfigurationOption("gui", {"Bool"}),
       ConfigurationOption("port", {"Option", "U16"}),
       ConfigurationOption("safeMode", {"Bool"}),
       ConfigurationOption("singleplayer", {"Bool"}),
       ConfigurationOption("universe", {"Option", "String"}),
       ConfigurationOption("world", {"Option", "String"}) >>

Catalogue == { get_config_option_info[i] : i \in 1..Len(get_config_option_info) }

\* main: the jar_filename argument of the command line.
jar_filename == "server.jar"

\* A variant of cli_flag that treats gui as every other Bool field.
cli_flag_GuiLikeTheOthers(configuration, option) ==
    LET property == option.property
        value == get(configuration, property)
    IN  IF value.kind = "Bool"
        THEN IF value.value THEN Some("--" \o property) ELSE None
        ELSE IF value.kind = "OptionU16"
        THEN IF value.value # None
             THEN Some("--" \o property \o " " \o ToString(value.value[1]))
             ELSE None
        ELSE IF value.value # None
             THEN Some("--" \o property \o " " \o value.value[1])
             ELSE None

\* run_server: the match on (property, value) that yields an option's flag.
cli_flag(configuration, option) ==
    LET property == option.property
        value == get(configuration, property)
    IN  IF property = "gui" /\ value.kind = "Bool"
        THEN IF value.value THEN None ELSE Some("--nogui")
        ELSE IF value.kind = "Bool"
        THEN IF value.value THEN Some("--" \o property) ELSE None
        ELSE IF value.kind = "OptionU16"
        THEN IF value.value # None
             THEN Some("--" \o property \o " " \o ToString(value.value[1]))
             ELSE None
        ELSE IF value.value # None
             THEN Some("--" \o property \o " " \o value.value[1])
             ELSE None

\* run_server: command_string after the loop has seen the first n options.
RECURSIVE command_string_after(_, _)
command_string_after(configuration, n) ==
    IF n = 0 THEN "java -jar " \o jar_filename
    ELSE LET command_string == command_string_after(configuration, n - 1)
             flag == cli_flag(configuration, get_config_option_info[n])
         IN  IF flag # None
             THEN command_string \o " " \o flag[1]
             ELSE command_string

\* run_server: the command line it runs.
command_string(configuration) ==
    command_string_after(configuration, Len(get_config_option_info))

\* ------------------------------------------------------ machine.rs: Machine

\* A failed .expect(): the process panics with the fields as they are.
panic(self) == [self EXCEPT !.panicked = TRUE]

\* A variant of set_option_value that keeps the selected option.
set_option_value_KeepsSelection(self, payload) ==
    IF self.selected_configuration_option = None
    THEN panic(self)
    ELSE [self EXCEPT
            !.configuration =
                set(self.configuration,
                    self.selected_configuration_option[1].property, payload)]

\* Machine::set_option_value
set_option_value(self, payload) ==
    IF self.selected_configuration_option = None
    THEN panic(self)
    ELSE [self EXCEPT
            !.configuration =
                set(self.configuration,
                    self.selected_configuration_option[1].property, payload),
            !.selected_configuration_option = None]

\* A variant of editor_state_for that tests Bool before Option.
editor_state_for_BoolFirst(type) ==
    IF "Bool" \in type THEN "SelectOnOff"
    ELSE IF "Option" \in type THEN "SelectValueOrNone"
    ELSE IF "U16" \in type THEN "NumberInput"
    ELSE "TextInput"

\* dispatch, (ChoiceMenu, SelectedOption): the editor state a descriptor's
\* flags select.
editor_state_for(type) ==
    IF "Option" \in type THEN "SelectValueOrNone"
    ELSE IF "Bool" \in type THEN "SelectOnOff"
    ELSE IF "U16" \in type THEN "NumberInput"
    ELSE "TextInput"

\* A variant of selected_option that does not expect a payload.
selected_option_NoPayloadTolerated(self, payload) ==
    IF payload = None THEN self
    ELSE IF payload[1].kind = "ConfigurationOption"
    THEN [self EXCEPT
            !.selected_configuration_option = Some(payload[1].option),
            !.editor_state = Some(editor_state_for(payload[1].option.type))]
    ELSE self

\* dispatch, (ChoiceMenu, SelectedOption): what the arm does before it yields
\* EditingConfiguration.
selected_option(self, payload) ==
    IF payload = None THEN panic(self)
    ELSE IF payload[1].kind = "ConfigurationOption"
    THEN [self EXCEPT
            !.selected_configuration_option = Some(payload[1].option),
            !.editor_state = Some(editor_state_for(payload[1].option.type))]
    ELSE self

\* A variant of app_state_after without the arm (Running, Exit).
app_state_after_NoExitFromRunning(state, event) ==
    CASE state = "ChoiceMenu" /\ event = "StartServer"    -> "Running"
      [] state = "ChoiceMenu" /\ event = "Exit"           -> "Exited"
      [] state = "ChoiceMenu" /\ event = "SelectedOption" -> "EditingConfiguration"
      [] OTHER                                            -> state

\* A variant of app_state_after whose StartServer arm matches any state but
\* EditingConfiguration.
app_state_after_StartFromAnywhere(state, event) ==
    CASE state # "EditingConfiguration" /\ event = "StartServer" -> "Running"
      [] state = "ChoiceMenu" /\ event = "Exit"           -> "Exited"
      [] state = "ChoiceMenu" /\ event = "SelectedOption" -> "EditingConfiguration"
      [] state = "Running" /\ event = "Exit"              -> "Exited"
      [] OTHER                                            -> state

\* A variant of app_state_after whose Exit arm matches any state but Exited.
app_state_after_ExitFromAnywhere(state, event) ==
    CASE state = "ChoiceMenu" /\ event = "StartServer"    -> "Running"
      [] state # "Exited" /\ event = "Exit"               -> "Exited"
      [] state = "ChoiceMenu" /\ event = "SelectedOption" -> "EditingConfiguration"
      [] OTHER                                            -> state

\* dispatch, Event::AppEvent: the value of the match on (state, event).
app_state_after(state, event) ==
    CASE state = "ChoiceMenu" /\ event = "StartServer"    -> "Running"
      [] state = "ChoiceMenu" /\ event = "Exit"           -> "Exited"
      [] state = "ChoiceMenu" /\ event = "SelectedOption" -> "EditingConfiguration"
      [] state = "Running" /\ event = "Exit"              -> "Exited"
      [] OTHER                                            -> state

\* dispatch, Event::AppEvent
dispatch_app_event(self, event, payload) ==
    LET arm == IF self.state = "ChoiceMenu" /\ event = "SelectedOption"
               THEN selected_option(self, payload)
               ELSE self
    IN  IF arm.panicked THEN arm
        ELSE [arm EXCEPT !.state = app_state_after(self.state, event)]

\* A variant of submit_value that yields the old editor state after the commit.
submit_value_KeepsEditor(self, payload) ==
    IF payload = None THEN panic(self)
    ELSE IF payload[1].kind = "ConfigurationOptionType"
    THEN LET set_ == set_option_value(self, payload[1].value)
         IN  IF set_.panicked THEN set_
             ELSE [set_ EXCEPT !.state = "ChoiceMenu"]
    ELSE self

\* dispatch, (SelectOnOff | NumberInput | TextInput, SubmitValue): the three
\* arms have the same code.
submit_value(self, payload) ==
    IF payload = None THEN panic(self)
    ELSE IF payload[1].kind = "ConfigurationOptionType"
    THEN LET set_ == set_option_value(self, payload[1].value)
         IN  IF set_.panicked THEN set_
             ELSE [set_ EXCEPT !.state = "ChoiceMenu", !.editor_state = None]
    ELSE self

\* A variant of selected_value_state with the two editors exchanged.
selected_value_state_Exchanged(type, option_editor_state) ==
    IF "U16" \in type THEN Some("TextInput")
    ELSE IF "String" \in type THEN Some("NumberInput")
    ELSE option_editor_state

\* dispatch, (SelectValueOrNone, SelectedValue): the new editor state.
selected_value_state(type, option_editor_state) ==
    IF "U16" \in type THEN Some("NumberInput")
    ELSE IF "String" \in type THEN Some("TextInput")
    ELSE option_editor_state

\* A variant of selected_value that also writes the absent value, as the
\* SelectedNone arm below it does.
selected_value_Writes(self) ==
    IF self.selected_configuration_option = None THEN panic(self)
    ELSE LET selected == self.selected_configuration_option[1]
         IN  [self EXCEPT
                !.configuration =
                    IF "U16" \in selected.type
                    THEN set(self.configuration, selected.property, OptionU16(None))
                    ELSE set(self.configuration, selected.property, OptionString(None)),
                !.editor_state = selected_value_state(selected.type, self.editor_state)]

\* dispatch, (SelectValueOrNone, SelectedValue)
selected_value(self) ==
    IF self.selected_configuration_option = None THEN panic(self)
    ELSE [self EXCEPT
            !.editor_state =
                selected_value_state(self.selected_configuration_option[1].type,
                                     self.editor_state)]

\* A variant of selected_none that abandons the edit without writing.
selected_none_NoWrite(self) ==
    IF self.selected_configuration_option = None THEN panic(self)
    ELSE [self EXCEPT !.selected_configuration_option = None,
                      !.state = "ChoiceMenu", !.editor_state = None]

\* dispatch, (SelectValueOrNone, SelectedNone)
selected_none(self) ==
    IF self.selected_configuration_option = None THEN panic(self)
    ELSE LET type == self.selected_configuration_option[1].type
             set_ == IF "U16" \in type
                     THEN set_option_value(self, OptionU16(None))
                     ELSE IF "String" \in type
                     THEN set_option_value(self, OptionString(None))
                     ELSE self
         IN  [set_ EXCEPT !.state = "ChoiceMenu", !.editor_state = None]

\* A variant of dispatch_editor_event in which SelectedNone at the NumberInput
\* or TextInput prompt goes back to SelectValueOrNone.
dispatch_editor_event_SelectedNoneGoesBack(self, event, payload) ==
    IF self.editor_state = None THEN panic(self)
    ELSE LET editor_state == self.editor_state[1]
         IN  CASE editor_state \in {"SelectOnOff", "NumberInput", "TextInput"}
                    /\ event = "SubmitValue"
                      -> submit_value(self, payload)
               [] editor_state \in {"NumberInput", "TextInput"}
                    /\ event = "SelectedNone"
                      -> [self EXCEPT !.editor_state = Some("SelectValueOrNone")]
               [] editor_state = "SelectValueOrNone" /\ event = "SelectedValue"
                      -> selected_value(self)
               [] editor_state = "SelectValueOrNone" /\ event = "SelectedNone"
                      -> selected_none(self)
               [] OTHER -> self

\* A variant of dispatch_editor_event that ignores an editor event when there
\* is no editor state, instead of panicking.
dispatch_editor_event_Tolerant(self, event, payload) ==
    IF self.editor_state = None THEN self
    ELSE LET editor_state == self.editor_state[1]
         IN  CASE editor_state \in {"SelectOnOff", "NumberInput", "TextInput"}
                    /\ event = "SubmitValue"
                      -> submit_value(self, payload)
               [] editor_state = "SelectValueOrNone" /\ event = "SelectedValue"
                      -> selected_value(self)
               [] editor_state = "SelectValueOrNone" /\ event = "SelectedNone"
                      -> selected_none(self)
               [] OTHER -> self

\* dispatch, Event::EditorEvent
dispatch_editor_event(self, event, payload) ==
    IF self.editor_state = None THEN panic(self)
    ELSE LET editor_state == self.editor_state[1]
         IN  CASE editor_state \in {"SelectOnOff", "NumberInput", "TextInput"}
                    /\ event = "SubmitValue"
                      -> submit_value(self, payload)
               [] editor_state = "SelectValueOrNone" /\ event = "SelectedValue"
                      -> selected_value(self)
               [] editor_state = "SelectValueOrNone" /\ event = "SelectedNone"
                      -> selected_none(self)
               [] OTHER -> self

\* Machine::dispatch
dispatch(self, e, payload) ==
    IF e.kind = "AppEvent"
    THEN dispatch_app_event(self, e.event, payload)
    ELSE dispatch_editor_event(self, e.event, payload)

\* ------------------------------------------------------- the inputs followed

\* Property names of descriptors that are not in the catalogue: a boolean
\* field, the integer field, a text field, and a name that is no field.
ProbeProperties == {"gui", "port", "world", "nosuch"}

\* The descriptors dispatch is called with: the catalogue, and every set of
\* flags on each probe property.
Descriptors ==
    Catalogue \cup { ConfigurationOption(p, t) :
                        p \in ProbeProperties, t \in SUBSET ConfigurationOptionTypeFlag }

\* Port numbers (u16) and texts that typed values carry.
PortValues == {0, 25565}

TextValues == {"survival"}

TypedValues ==
    { Bool(b) : b \in BOOLEAN }
      \cup { OptionU16(None) } \cup { OptionU16(Some(n)) : n \in PortValues }
      \cup { OptionString(None) } \cup { OptionString(Some(t)) : t \in TextValues }

\* dispatch's payload parameter, an Option<Payload>.
Payloads ==
    { None }
      \cup { Some(Payload_ConfigurationOption(d)) : d \in Descriptors }
      \cup { Some(Payload_ConfigurationOptionType(v)) : v \in TypedValues }

\* get_configuration: a record read from msc-configuration.ron.
loaded_configuration ==
    [default_configuration EXCEPT
        !.gui = TRUE, !.port = Some(19132), !.world = Some("creative")]

\* get_configuration: the defaults, or the record the file held.
InitialConfigurations == { default_configuration, loaded_configuration }

\* ------------------------------------------------------------ state machine

VARIABLES
    state,                          \* Machine.state
    editor_state,                   \* Machine.editor_state
    selected_configuration_option,  \* Machine.selected_configuration_option
    configuration,                  \* Machine.configuration
    panicked,                       \* the process has panicked
    event,                          \* the event of the last dispatch, if any
    dispatches,                     \* the number of dispatch calls so far
    saved,                          \* the record last written to msc-configuration.ron
    launched,                       \* the command line run_server has run, if any
    crashed                         \* main has panicked outside dispatch

vars == << state, editor_state, selected_configuration_option, configuration,
           panicked, event, dispatches, saved, launched, crashed >>

\* What main keeps besides the machine.
shell_vars == << saved, launched, crashed >>

\* The machine's fields as one record, the `self` of dispatch.
machine ==
    [ state |-> state, editor_state |-> editor_state,
      selected_configuration_option |-> selected_configuration_option,
      configuration |-> configuration, panicked |-> panicked ]

\* main: the Machine as constructed before the loop.
Init ==
    /\ state = "ChoiceMenu"
    /\ editor_state = None
    /\ selected_configuration_option = None
    /\ configuration \in InitialConfigurations
    /\ panicked = FALSE
    /\ event = None
    /\ dispatches = 0
    /\ saved = None
    /\ launched = None
    /\ crashed = FALSE

\* One call machine.dispatch(e, p).
Dispatch(e, p) ==
    /\ ~panicked
    /\ dispatches < MaxDispatches
    /\ LET after == dispatch(machine, e, p)
       IN  /\ state' = after.state
           /\ editor_state' = after.editor_state
           /\ selected_configuration_option' = after.selected_configuration_option
           /\ configuration' = after.configuration
           /\ panicked' = after.panicked
    /\ event' = Some(e)
    /\ dispatches' = dispatches + 1

DispatchAppEvent ==
    /\ \E e \in AppEvent, p \in Payloads : Dispatch(Event_AppEvent(e), p)
    /\ UNCHANGED shell_vars

DispatchEditorEvent ==
    /\ \E e \in EditorEvent, p \in Payloads : Dispatch(Event_EditorEvent(e), p)
    /\ UNCHANGED shell_vars

Next == DispatchAppEvent \/ DispatchEditorEvent

Spec == Init /\ [][Next]_vars

\* ------------------------------------ the record's accessors and run_server

\* Names handed to get and set: the eleven fields and one that is no field.
PropertyNames == { Properties[i] : i \in 1..Len(Properties) } \cup {"nosuch"}

\* configuration.set(property, value) on the live record.
ApplySet ==
    /\ launched = None
    /\ \E property \in PropertyNames, value \in TypedValues :
          configuration' = set(configuration, property, value)
    /\ UNCHANGED << state, editor_state, selected_configuration_option, panicked,
                    event, dispatches, saved, launched, crashed >>

\* configuration.set(property, configuration.get(property)) on the live record.
ApplySetGet ==
    /\ launched = None
    /\ \E property \in PropertyNames :
          configuration' = set(configuration, property, get(configuration, property))
    /\ UNCHANGED << state, editor_state, selected_configuration_option, panicked,
                    event, dispatches, saved, launched, crashed >>

\* run_server(configuration, jar_filename, terminal) builds its command line.
ApplyRunServer ==
    /\ launched = None
    /\ launched' = Some(command_string(configuration))
    /\ UNCHANGED << state, editor_state, selected_configuration_option,
                    configuration, panicked, event, dispatches, saved, crashed >>

RecordNext == ApplySet \/ ApplySetGet \/ ApplyRunServer

\* The accessors and run_server applied to every record that set can build
\* from the records main starts with.
RecordSpec == Init /\ [][RecordNext]_vars

\* ------------------------------------------------------------------ claims
\* Each claim is stated at the state a dispatch starts from: for every state
\* the machine reaches and every input of the kind the claim is about, the
\* machine that dispatch returns is what the claim says.  Witnesses are
\* states a dispatch has led to.

SubmitValue == Event_EditorEvent("SubmitValue")

SelectedValue == Event_EditorEvent("SelectedValue")

SelectedNone == Event_EditorEvent("SelectedNone")

StartServer == Event_AppEvent("StartServer")

Exit == Event_AppEvent("Exit")

SelectedOption == Event_AppEvent("SelectedOption")

\* The editor states in which SubmitValue commits.
SubmitStates == { Some("SelectOnOff"), Some("NumberInput"), Some("TextInput") }

\* Two typed values are the same variant with the same content.
SameValue(a, b) == a.kind = b.kind /\ a.value = b.value

\* The Typed Value variant the inner transition table requires per editor state.
ExpectedVariant(es) ==
    CASE es = "SelectOnOff" -> "Bool"
      [] es = "NumberInput" -> "OptionU16"
      [] es = "TextInput"   -> "OptionString"

\* C1: every SubmitValue that carries a typed value while editor_state is
\* SelectOnOff, NumberInput or TextInput returns with the field named by the
\* selected option holding exactly the committed value, selected_option
\* absent, app_state ChoiceMenu and editor_state absent.  Stated here for the
\* options of the catalogue, whose named field exists.
C1_CommitWritesTheValue ==
    ( /\ ~panicked
      /\ editor_state \in SubmitStates
      /\ selected_configuration_option # None
      /\ selected_configuration_option[1] \in Catalogue )
    => \A v \in TypedValues :
          LET after == dispatch(machine, SubmitValue,
                                Some(Payload_ConfigurationOptionType(v)))
          IN  /\ ~after.panicked
              /\ SameValue(get(after.configuration,
                               selected_configuration_option[1].property), v)
              /\ after.selected_configuration_option = None
              /\ after.state = "ChoiceMenu"
              /\ after.editor_state = None

\* C2: a SubmitValue whose typed value is not of the variant the active
\* editor state expects aborts; it is never accepted as a commit that returns
\* to ChoiceMenu and clears selected_option.
C2_MismatchedSubmitAborts ==
    (~panicked /\ editor_state \in SubmitStates)
    => \A v \in TypedValues :
          v.kind # ExpectedVariant(editor_state[1])
          => LET after == dispatch(machine, SubmitValue,
                                   Some(Payload_ConfigurationOptionType(v)))
             IN  /\ after.panicked
                 /\ ~( /\ after.state = "ChoiceMenu"
                       /\ after.selected_configuration_option = None )

\* C3: for every set of shape flags, SelectedOption with that descriptor from
\* ChoiceMenu sets app_state to EditingConfiguration, stores the descriptor as
\* selected_option and sets editor_state by priority: Option, else Bool, else
\* U16, else TextInput; the Configuration Record is unchanged.
C3_EditorStateByPriority ==
    /\ \A t \in SUBSET ConfigurationOptionTypeFlag : \E d \in Descriptors : d.type = t
    /\ (~panicked /\ state = "ChoiceMenu")
       => \A d \in Descriptors :
             LET after == dispatch(machine, SelectedOption,
                                   Some(Payload_ConfigurationOption(d)))
             IN  /\ ~after.panicked
                 /\ after.state = "EditingConfiguration"
                 /\ after.selected_configuration_option = Some(d)
                 /\ after.editor_state =
                        Some(IF "Option" \in d.type THEN "SelectValueOrNone"
                             ELSE IF "Bool" \in d.type THEN "SelectOnOff"
                             ELSE IF "U16" \in d.type THEN "NumberInput"
                             ELSE "TextInput")
                 /\ after.configuration = configuration

\* C3's case: an option flagged both Option and Bool has been selected, and
\* Option has won.
C3_Witness ==
    /\ event = Some(SelectedOption)
    /\ state = "EditingConfiguration"
    /\ selected_configuration_option # None
    /\ selected_configuration_option[1].type = {"Option", "Bool"}
    /\ editor_state = Some("SelectValueOrNone")

\* C4: in SelectValueOrNone, SelectedValue moves editor_state to NumberInput
\* for an {Option, U16} option and to TextInput for an {Option, String}
\* option, and commits nothing: app_state stays EditingConfiguration,
\* selected_option and the Configuration Record are unchanged.
C4_SelectedValueMovesOn ==
    ( /\ ~panicked
      /\ editor_state = Some("SelectValueOrNone")
      /\ selected_configuration_option # None
      /\ selected_configuration_option[1].type \in
            { {"Option", "U16"}, {"Option", "String"} } )
    => \A p \in Payloads :
          LET after == dispatch(machine, SelectedValue, p)
          IN  /\ state = "EditingConfiguration"
              /\ after =
                  [machine EXCEPT !.editor_state =
                      Some(IF selected_configuration_option[1].type = {"Option", "U16"}
                           THEN "NumberInput" ELSE "TextInput")]

\* C4's case: SelectedValue has moved an {Option, U16} option to NumberInput.
C4_Witness ==
    /\ event = Some(SelectedValue)
    /\ state = "EditingConfiguration"
    /\ editor_state = Some("NumberInput")
    /\ selected_configuration_option # None
    /\ selected_configuration_option[1].type = {"Option", "U16"}

\* The fields of the Configuration Record that hold an optional value.
OptionalProperties == {"port", "universe", "world"}

\* The named field holds no value.
FieldAbsent(cfg, property) ==
    /\ get(cfg, property).kind \in {"OptionU16", "OptionString"}
    /\ get(cfg, property).value = None

\* The edit has ended: ChoiceMenu, no editor state, no selected option.
EditEnded(after) ==
    /\ ~after.panicked
    /\ after.state = "ChoiceMenu"
    /\ after.editor_state = None
    /\ after.selected_configuration_option = None

\* C5, as claimed: in SelectValueOrNone, SelectedNone on an {Option, U16} or
\* {Option, String} option leaves the named field absent, whatever it held
\* before, and ends the edit.  Stated for options that name an optional field.
C5_SelectedNoneLeavesFieldAbsent ==
    ( /\ ~panicked
      /\ editor_state = Some("SelectValueOrNone")
      /\ selected_configuration_option # None
      /\ selected_configuration_option[1].type \in
            { {"Option", "U16"}, {"Option", "String"} }
      /\ selected_configuration_option[1].property \in OptionalProperties )
    => \A p \in Payloads :
          LET after == dispatch(machine, SelectedNone, p)
          IN  /\ FieldAbsent(after.configuration,
                             selected_configuration_option[1].property)
              /\ EditEnded(after)

\* C5, amended: in SelectValueOrNone, SelectedNone on an {Option, U16} option
\* that names the integer field writes an absent integer to it, and on an
\* {Option, String} option that names a text field writes an absent string to
\* it, whatever the field held before; when the named field is not of the
\* option's shape the record is unchanged.  In every case the edit has ended.
C5_SelectedNoneWritesAbsentWhereItFits ==
    ( /\ ~panicked
      /\ editor_state = Some("SelectValueOrNone")
      /\ selected_configuration_option # None
      /\ selected_configuration_option[1].type \in
            { {"Option", "U16"}, {"Option", "String"} } )
    => \A p \in Payloads :
          LET after    == dispatch(machine, SelectedNone, p)
              selected == selected_configuration_option[1]
          IN  /\ EditEnded(after)
              /\ after.configuration =
                   IF selected.type = {"Option", "U16"} /\ selected.property = "port"
                   THEN [configuration EXCEPT !.port = None]
                   ELSE IF selected.type = {"Option", "String"}
                           /\ selected.property = "universe"
                   THEN [configuration EXCEPT !.universe = None]
                   ELSE IF selected.type = {"Option", "String"}
                           /\ selected.property = "world"
                   THEN [configuration EXCEPT !.world = None]
                   ELSE configuration

\* C5's case: SelectedNone has cleared a port that held a number.
C5_Witness ==
    /\ event = Some(SelectedNone)
    /\ dispatches = 2
    /\ state = "ChoiceMenu"
    /\ selected_configuration_option = None
    /\ configuration = [loaded_configuration EXCEPT !.port = None]

\* C6: from ChoiceMenu, StartServer leads to Running and Exit to Exited; from
\* Running, Exit leads to Exited; none of the three changes editor_state,
\* selected_option or the Configuration Record.
C6_OuterTransitions ==
    ~panicked
    => \A p \in Payloads :
          /\ state = "ChoiceMenu"
             => /\ dispatch(machine, StartServer, p) = [machine EXCEPT !.state = "Running"]
                /\ dispatch(machine, Exit, p) = [machine EXCEPT !.state = "Exited"]
          /\ state = "Running"
             => dispatch(machine, Exit, p) = [machine EXCEPT !.state = "Exited"]

\* C6's case: the first dispatch was StartServer, from ChoiceMenu, and has led
\* to Running with the loaded record untouched.
C6_Witness ==
    /\ event = Some(StartServer)
    /\ state = "Running"
    /\ dispatches = 1
    /\ editor_state = None
    /\ selected_configuration_option = None
    /\ configuration = loaded_configuration

\* C7: once app_state is Exited, no event with any payload leads to another
\* app_state or changes the Configuration Record.
C7_ExitedIsTerminal ==
    (~panicked /\ state = "Exited")
    => \A e \in Event, p \in Payloads :
          LET after == dispatch(machine, e, p)
          IN  /\ after.state = "Exited"
              /\ after.configuration = configuration

\* C7's case: StartServer has been dispatched in Exited.
C7_Witness ==
    /\ event = Some(StartServer)
    /\ state = "Exited"
    /\ ~panicked

\* The (state, event) pairs of the two transition tables.
Listed(e) ==
    IF e.kind = "AppEvent"
    THEN \/ state = "ChoiceMenu"
         \/ state = "Running" /\ e.event = "Exit"
    ELSE \/ editor_state \in SubmitStates /\ e.event = "SubmitValue"
         \/ editor_state = Some("SelectValueOrNone")
              /\ e.event \in {"SelectedValue", "SelectedNone"}

\* dispatch(e, p) returns with app_state and editor_state as they were, and a
\* second dispatch(e, p) changes nothing either.
IgnoredTwice(e, p) ==
    LET after == dispatch(machine, e, p)
    IN  /\ ~after.panicked
        /\ after.state = state
        /\ after.editor_state = editor_state
        /\ dispatch(after, e, p) = after

\* C8, as claimed: every event that is not a listed transition of the state
\* it is dispatched in leaves app_state and editor_state unchanged, and twice
\* is as once.
C8_UnlistedIsIgnored ==
    ~panicked
    => \A e \in Event, p \in Payloads : ~Listed(e) => IgnoredTwice(e, p)

\* C8, amended: every event that is not a listed transition, other than an
\* editor event dispatched while editor_state is absent, leaves app_state and
\* editor_state unchanged, and twice is as once.
C8_UnlistedIsIgnoredUnlessNoEditor ==
    ~panicked
    => \A e \in Event, p \in Payloads :
          (~Listed(e) /\ ~(e.kind = "EditorEvent" /\ editor_state = None))
          => IgnoredTwice(e, p)

\* C8's case: StartServer has been dispatched in Running and ignored.
C8_Witness ==
    /\ event = Some(StartServer)
    /\ state = "Running"
    /\ dispatches = 2
    /\ ~panicked

\* C9: an editor event dispatched while editor_state is absent, as it is in
\* every state with app_state ChoiceMenu, Running or Exited, aborts and no
\* field of the machine is modified.
C9_EditorEventWithoutEditorAborts ==
    /\ state \in {"ChoiceMenu", "Running", "Exited"} => editor_state = None
    /\ (~panicked /\ editor_state = None)
       => \A e \in EditorEvent, p \in Payloads :
             dispatch(machine, Event_EditorEvent(e), p) = panic(machine)

\* C9's case: SubmitValue has been dispatched in Running and has aborted.
C9_Witness ==
    /\ event = Some(SubmitValue)
    /\ state = "Running"
    /\ panicked

\* C10: a dispatch changes the Configuration Record only if it is a
\* SubmitValue with a typed value in SelectOnOff, NumberInput or TextInput, or
\* a SelectedNone in SelectValueOrNone.
C10_OnlyCommitsChangeTheRecord ==
    ~panicked
    => \A e \in Event, p \in Payloads :
          dispatch(machine, e, p).configuration # configuration
          => \/ /\ e = SubmitValue
                /\ editor_state \in SubmitStates
                /\ p # None
                /\ p[1].kind = "ConfigurationOptionType"
             \/ /\ e = SelectedNone
                /\ editor_state = Some("SelectValueOrNone")

\* C10's case: a SubmitValue has changed the record.
C10_Witness ==
    /\ event = Some(SubmitValue)
    /\ state = "ChoiceMenu"
    /\ configuration.world = Some("survival")

\* ------------------------------------------------- main.rs: the shell loop

\* The largest u16.
U16_MAX == 65535

\* The bound on the dispatch calls of one run of main.
MaxShellDispatches == 5

\* Result<u16, ParseIntError>
Ok(n) == << n >>

Err == << >>

\* The value of a decimal digit, or 10 for any other character.
to_digit(c) ==
    CASE c = "0" -> 0 [] c = "1" -> 1 [] c = "2" -> 2 [] c = "3" -> 3
      [] c = "4" -> 4 [] c = "5" -> 5 [] c = "6" -> 6 [] c = "7" -> 7
      [] c = "8" -> 8 [] c = "9" -> 9 [] OTHER -> 10

\* str::parse::<u16> on digits after the optional sign, result so far `acc`.
RECURSIVE parse_digits(_, _)
parse_digits(chars, acc) ==
    IF chars = << >> THEN Ok(acc)
    ELSE LET d == to_digit(Head(chars))
         IN  IF d = 10 THEN Err
             ELSE IF acc * 10 + d > U16_MAX THEN Err
             ELSE parse_digits(Tail(chars), acc * 10 + d)

\* result.parse::<u16>(), the text given character by character.
parse_u16(chars) ==
    IF chars = << >> THEN Err
    ELSE LET digits == IF Head(chars) = "+" THEN Tail(chars) ELSE chars
         IN  IF digits = << >> THEN Err ELSE parse_digits(digits, 0)

\* Texts typed at the NumberInput prompt.
NumberInputs ==
    { << "2", "5", "5", "6", "5" >>, << "0" >>, << "7", "0", "0", "0", "0" >>,
      << "a", "b", "c" >>, << "-", "1" >>, << "+", "8", "0" >> }

\* A variant of save_configuration that writes the defaults.
save_configuration_WritesDefaults(configuration_) == Some(default_configuration)

\* save_configuration: the file's content afterwards.  (ron::to_string is
\* the ron crate's; the record stands for its serialisation.)
save_configuration(configuration_) == Some(configuration_)

\* main: machine.dispatch(e, p), followed by save_configuration when `save`;
\* fs::write may fail, and then main panics.
ShellDispatch(e, p, save) ==
    /\ dispatches < MaxShellDispatches
    /\ LET after == dispatch(machine, e, p)
       IN  /\ state' = after.state
           /\ editor_state' = after.editor_state
           /\ selected_configuration_option' = after.selected_configuration_option
           /\ configuration' = after.configuration
           /\ panicked' = after.panicked
           /\ IF save /\ ~after.panicked
              THEN \E written \in BOOLEAN :
                      IF written
                      THEN saved' = save_configuration(after.configuration)
                           /\ crashed' = FALSE
                      ELSE saved' = saved /\ crashed' = TRUE
              ELSE UNCHANGED << saved, crashed >>
    /\ event' = Some(e)
    /\ dispatches' = dispatches + 1
    /\ UNCHANGED launched

\* main panics outside dispatch.
Crash ==
    /\ crashed' = TRUE
    /\ UNCHANGED << state, editor_state, selected_configuration_option,
                    configuration, panicked, event, dispatches, saved, launched >>

\* main's loop runs while the machine has not exited and nothing has panicked.
Looping == state # "Exited" /\ ~panicked /\ ~crashed

\* main, AppState::ChoiceMenu: the Select over get_names(..) returns the
\* index of an item, or nothing when the user cancels (unwrap panics).
ChoiceMenuStep ==
    /\ Looping
    /\ state = "ChoiceMenu"
    /\ \E result \in (0 .. Len(get_config_option_info) + 1) \cup {-1} :
          IF result = -1 THEN Crash
          ELSE IF result = 0 THEN ShellDispatch(StartServer, None, FALSE)
          ELSE IF result = 1 THEN ShellDispatch(Exit, None, FALSE)
          ELSE IF result - 1 \in 1..Len(get_config_option_info)
          THEN ShellDispatch(SelectedOption,
                   Some(Payload_ConfigurationOption(get_config_option_info[result - 1])),
                   FALSE)
          ELSE UNCHANGED vars

\* main, AppState::Running: run_server, then Exit.  status.code() is None
\* when a signal ended the server, and the unwrap panics.
RunningStep ==
    /\ Looping
    /\ state = "Running"
    /\ \E has_code \in BOOLEAN :
          IF has_code
          THEN /\ dispatches < MaxShellDispatches
               /\ LET after == dispatch(machine, Exit, None)
                  IN  /\ state' = after.state
                      /\ editor_state' = after.editor_state
                      /\ selected_configuration_option'
                            = after.selected_configuration_option
                      /\ configuration' = after.configuration
                      /\ panicked' = after.panicked
               /\ event' = Some(Exit)
               /\ dispatches' = dispatches + 1
               /\ launched' = Some(command_string(configuration))
               /\ UNCHANGED << saved, crashed >>
          ELSE /\ launched' = Some(command_string(configuration))
               /\ crashed' = TRUE
               /\ UNCHANGED << state, editor_state, selected_configuration_option,
                               configuration, panicked, event, dispatches, saved >>

\* main, EditorState::SelectOnOff: the payload for the item chosen.
select_on_off_payload(result) ==
    Some(Payload_ConfigurationOptionType(Bool(result = 0)))

\* main, EditorState::SelectOnOff: "Enable" is item 0.
EditSelectOnOff ==
    /\ editor_state = Some("SelectOnOff")
    /\ \E result \in {-1, 0, 1} :
          IF result = -1 THEN Crash
          ELSE ShellDispatch(SubmitValue, select_on_off_payload(result), TRUE)

\* A variant of number_input_payload that lets zero through.
number_input_payload_ZeroAllowed(result) ==
    LET parsed == parse_u16(result)
    IN  IF parsed # Err
        THEN Some(Payload_ConfigurationOptionType(OptionU16(Some(parsed[1]))))
        ELSE None

\* A variant of number_input_payload that submits the number as text.
number_input_payload_AsText(result) ==
    LET parsed == parse_u16(result)
    IN  IF parsed # Err /\ parsed # Ok(0)
        THEN Some(Payload_ConfigurationOptionType(OptionString(Some(ToString(parsed[1])))))
        ELSE None

\* main, EditorState::NumberInput: the payload for the text typed, none when
\* the text does not parse as a u16 or is zero.
number_input_payload(result) ==
    LET parsed == parse_u16(result)
    IN  IF parsed # Err /\ parsed # Ok(0)
        THEN Some(Payload_ConfigurationOptionType(OptionU16(Some(parsed[1]))))
        ELSE None

\* main, EditorState::NumberInput: only a parsed, non-zero u16 is dispatched.
EditNumberInput ==
    /\ editor_state = Some("NumberInput")
    /\ \E result \in NumberInputs :
          LET payload == number_input_payload(result)
          IN  IF payload # None
              THEN ShellDispatch(SubmitValue, payload, TRUE)
              ELSE UNCHANGED vars

\* main, EditorState::TextInput: the payload for the text typed.
text_input_payload(result) ==
    Some(Payload_ConfigurationOptionType(OptionString(Some(result))))

\* main, EditorState::TextInput
EditTextInput ==
    /\ editor_state = Some("TextInput")
    /\ \E result \in TextValues :
          ShellDispatch(SubmitValue, text_input_payload(result), TRUE)

\* main, EditorState::SelectValueOrNone: "Enter a value" is item 0.
EditSelectValueOrNone ==
    /\ editor_state = Some("SelectValueOrNone")
    /\ \E result \in {-1, 0, 1} :
          IF result = -1 THEN Crash
          ELSE IF result = 0 THEN ShellDispatch(SelectedValue, None, FALSE)
          ELSE ShellDispatch(SelectedNone, None, TRUE)

\* main, AppState::EditingConfiguration: expects an editor state and a
\* selected option, then prompts as the editor state says.
EditingConfigurationStep ==
    /\ Looping
    /\ state = "EditingConfiguration"
    /\ IF editor_state = None \/ selected_configuration_option = None
       THEN Crash
       ELSE \/ EditSelectOnOff
            \/ EditNumberInput
            \/ EditTextInput
            \/ EditSelectValueOrNone

ShellNext == ChoiceMenuStep \/ RunningStep \/ EditingConfigurationStep

\* main: the loop, from the machine as constructed.
ShellSpec == Init /\ [][ShellNext]_vars

\* ------------------------------------- dispatch as the tables prescribe it

\* The payloads the transition tables allow with event e in the current
\* state: a descriptor of the catalogue with SelectedOption in ChoiceMenu, a
\* typed value of the editor's variant with SubmitValue, none otherwise.
TablePayloads(e) ==
    IF e = SelectedOption /\ state = "ChoiceMenu"
    THEN { Some(Payload_ConfigurationOption(d)) : d \in Catalogue }
    ELSE IF e = SubmitValue /\ editor_state \in SubmitStates
    THEN { Some(Payload_ConfigurationOptionType(v)) :
              v \in { w \in TypedValues : w.kind = ExpectedVariant(editor_state[1]) } }
    ELSE { None }

TableDispatchAppEvent ==
    /\ \E e \in AppEvent :
          \E p \in TablePayloads(Event_AppEvent(e)) : Dispatch(Event_AppEvent(e), p)
    /\ UNCHANGED shell_vars

TableDispatchEditorEvent ==
    /\ \E e \in EditorEvent :
          \E p \in TablePayloads(Event_EditorEvent(e)) : Dispatch(Event_EditorEvent(e), p)
    /\ UNCHANGED shell_vars

TableNext == TableDispatchAppEvent \/ TableDispatchEditorEvent

\* Any sequence of events, each with the payload the tables require.
TableSpec == Init /\ [][TableNext]_vars

\* C11: when every payload is of the kind the tables require and every
\* descriptor is from the catalogue, selected_option is present only while
\* app_state is EditingConfiguration: SelectedOption sets it, and it is absent
\* right after a SubmitValue commit or a SelectedNone.
C11_SelectedOnlyWhileEditing ==
    /\ selected_configuration_option # None => state = "EditingConfiguration"
    /\ ~panicked =>
         /\ \A p \in TablePayloads(SelectedOption) :
               state = "ChoiceMenu"
               => dispatch(machine, SelectedOption, p).selected_configuration_option
                     = Some(p[1].option)
         /\ \A p \in TablePayloads(SubmitValue) :
               editor_state \in SubmitStates
               => dispatch(machine, SubmitValue, p).selected_configuration_option = None
         /\ \A p \in TablePayloads(SelectedNone) :
               editor_state = Some("SelectValueOrNone")
               => dispatch(machine, SelectedNone, p).selected_configuration_option = None

\* C11's case: an option of the catalogue was selected and the edit abandoned
\* with SelectedNone; no option is selected any more.
C11_Witness ==
    /\ event = Some(SelectedNone)
    /\ dispatches = 2
    /\ state = "ChoiceMenu"
    /\ selected_configuration_option = None
    /\ ~panicked

\* C12: in every state reached by dispatches with any payloads, editor_state
\* is present only if app_state is EditingConfiguration.
C12_EditorOnlyWhileEditing ==
    editor_state # None => state = "EditingConfiguration"

\* C12's case: a SubmitValue has committed and, back in ChoiceMenu, there is
\* no editor state.
C12_Witness ==
    /\ event = Some(SubmitValue)
    /\ state = "ChoiceMenu"
    /\ editor_state = None
    /\ ~panicked

\* The (state, event) pairs whose arm of dispatch expects a payload.
RequiresPayload(e) ==
    \/ state = "ChoiceMenu" /\ e = SelectedOption
    \/ editor_state \in SubmitStates /\ e = SubmitValue

\* C15: SelectedOption in ChoiceMenu and SubmitValue in SelectOnOff,
\* NumberInput or TextInput abort when dispatched without a payload and leave
\* every field as it was; for every other state and event, dispatch returns
\* the same machine whether the payload is absent, a descriptor or a typed
\* value.
C15_PayloadReadOnlyWhereRequired ==
    ~panicked =>
        \A e \in Event :
            IF RequiresPayload(e)
            THEN dispatch(machine, e, None) = panic(machine)
            ELSE \A p \in Payloads :
                     dispatch(machine, e, p) = dispatch(machine, e, None)

\* C15's case: SelectedOption was dispatched in ChoiceMenu without a payload
\* and the machine aborted, its fields as constructed.
C15_Witness ==
    /\ event = Some(SelectedOption)
    /\ panicked
    /\ state = "ChoiceMenu"
    /\ editor_state = None
    /\ selected_configuration_option = None
    /\ configuration \in InitialConfigurations

\* C19: in SelectValueOrNone, for a selected descriptor whose flags include
\* Option, whatever its other flags, SelectedNone ends the edit: ChoiceMenu,
\* no editor state and no selected option.
C19_SelectedNoneAbandonsCompletely ==
    ( /\ ~panicked
      /\ editor_state = Some("SelectValueOrNone")
      /\ selected_configuration_option # None
      /\ "Option" \in selected_configuration_option[1].type )
    => \A p \in Payloads : EditEnded(dispatch(machine, SelectedNone, p))

\* C20: a dispatch that commits writes at most one field of the record, the
\* one named by the selected option's property; the other ten fields keep
\* their values.
C20_CommitWritesOnlyTheSelectedField ==
    ~panicked =>
        \A e \in {SubmitValue, SelectedNone} :
            \A p \in { None } \cup { Some(Payload_ConfigurationOptionType(v)) :
                                       v \in TypedValues } :
                LET after == dispatch(machine, e, p)
                IN  \A i \in 1..Len(Properties) :
                        after.configuration[Properties[i]] # configuration[Properties[i]]
                        => /\ selected_configuration_option # None
                           /\ Properties[i] = selected_configuration_option[1].property

\* C20's case: a SubmitValue has committed a new port; port is the only field
\* that differs from the record read at start.
C20_Witness ==
    /\ event = Some(SubmitValue)
    /\ ~panicked
    /\ configuration = [loaded_configuration EXCEPT !.port = Some(25565)]

\* The record's field names as a set.
Fields == { Properties[i] : i \in 1..Len(Properties) }

\* C13: for each of the eleven field names and every record, set(property,
\* get(property)) leaves the whole record as it was, and get(property) after
\* set(property, v) returns v for every typed value v of the field's variant.
C13_GetSetRoundTrip ==
    \A property \in Fields :
        /\ set(configuration, property, get(configuration, property)) = configuration
        /\ \A v \in TypedValues :
              v.kind = get(configuration, property).kind
              => SameValue(get(set(configuration, property, v), property), v)

\* C13's case: set has written port and universe, and get returns what was
\* written.
C13_Witness ==
    /\ configuration = [default_configuration EXCEPT !.port = Some(25565),
                                                     !.universe = Some("survival")]
    /\ SameValue(get(configuration, "port"), OptionU16(Some(25565)))
    /\ SameValue(get(configuration, "universe"), OptionString(Some("survival")))
    /\ launched = None

\* C14: get on a name that is no field returns the absent text value, and
\* set(name, value) leaves every field as it was when name is no field or is a
\* field of another variant than value's.
C14_AccessorsAreLenient ==
    /\ \A name \in PropertyNames \ Fields :
          SameValue(get(configuration, name), OptionString(None))
    /\ \A name \in PropertyNames, value \in TypedValues :
          (name \notin Fields \/ get(configuration, name).kind # value.kind)
          => set(configuration, name, value) = configuration

\* C14's case: a record that set has built, on which a set under an unknown
\* name and a Bool set on port change nothing.
C14_Witness ==
    /\ configuration = [default_configuration EXCEPT !.port = Some(25565),
                                                     !.demo = TRUE]
    /\ set(configuration, "nosuch", OptionU16(None)) = configuration
    /\ set(configuration, "port", Bool(TRUE)) = configuration
    /\ get(configuration, "nosuch").value = None
    /\ launched = None

\* The flags that follow "java -jar <jar>", each preceded by a space.
RECURSIVE Joined(_)
Joined(flags) ==
    IF flags = << >> THEN "" ELSE " " \o Head(flags) \o Joined(Tail(flags))

\* The flag the claim gives the i-th option of the catalogue, as a sequence of
\* no or one flag.
ClaimedFlag(i) ==
    LET property == get_config_option_info[i].property
    IN  IF property = "gui"
        THEN IF configuration.gui THEN << >> ELSE << "--nogui" >>
        ELSE IF property \in BoolProperties
        THEN IF configuration[property] THEN << "--" \o property >> ELSE << >>
        ELSE IF property = "port"
        THEN IF configuration.port = None THEN << >>
             ELSE << "--port " \o ToString(configuration.port[1]) >>
        ELSE IF configuration[property] = None THEN << >>
             ELSE << "--" \o property \o " " \o configuration[property][1] >>

\* The claimed flags of options 1..n, in catalogue order.
RECURSIVE ClaimedFlags(_)
ClaimedFlags(n) ==
    IF n = 0 THEN << >> ELSE ClaimedFlags(n - 1) \o ClaimedFlag(n)

\* C16: the command line run_server builds holds, in catalogue order,
\* --<property> for each Bool option other than gui that is true, --nogui
\* exactly when gui is false, and --<property> <value> for each of port,
\* universe and world that is present; for the default record the flags are
\* exactly --bonusChest --nogui.
C16_FlagsInCatalogueOrder ==
    /\ \A i \in 1..Len(get_config_option_info) :
          cli_flag(configuration, get_config_option_info[i]) = ClaimedFlag(i)
    /\ command_string(configuration)
          = "java -jar " \o jar_filename
               \o Joined(ClaimedFlags(Len(get_config_option_info)))
    /\ command_string(default_configuration)
          = "java -jar server.jar --bonusChest --nogui"
    /\ launched # None => launched[1] = command_string(configuration)

\* C16's case: run_server has built the command line of a record with gui on,
\* a port and a world.
C16_Witness ==
    /\ configuration = loaded_configuration
    /\ launched = Some("java -jar server.jar --bonusChest --port 19132 --world creative")

\* The typed value variant that goes with a descriptor's flags.
VariantOf(type) ==
    IF "Bool" \in type THEN "Bool"
    ELSE IF "U16" \in type THEN "OptionU16"
    ELSE "OptionString"

\* C18: every descriptor of the catalogue has exactly one of Bool, U16 and
\* String, has Option only together with U16 or String, and names a field for
\* which get returns a typed value of the matching variant; the eleven
\* descriptors name eleven different fields.
C18_CatalogueIsWellFormed ==
    /\ \A d \in Catalogue :
          /\ Cardinality(d.type \cap {"Bool", "U16", "String"}) = 1
          /\ "Option" \in d.type => d.type \cap {"U16", "String"} # {}
          /\ d.property \in Fields
          /\ get(configuration, d.property).kind = VariantOf(d.type)
    /\ Len(get_config_option_info) = 11
    /\ \A i, j \in 1..Len(get_config_option_info) :
          i # j => get_config_option_info[i].property # get_config_option_info[j].property

\* C18's case: a record whose optional fields hold values, for which get
\* returns the variants the port and world descriptors are flagged with.
C18_Witness ==
    /\ configuration.port = Some(25565)
    /\ configuration.world = Some("survival")
    /\ get(configuration, get_config_option_info[7].property).kind = "OptionU16"
    /\ get(configuration, get_config_option_info[11].property).kind = "OptionString"
    /\ "U16" \in get_config_option_info[7].type
    /\ "String" \in get_config_option_info[11].type

\* Main is alive: neither dispatch nor main itself has panicked.
Alive == ~panicked /\ ~crashed

\* C17: in main's loop every dispatch that commits an edit (SubmitValue,
\* SelectedNone) is followed by a save of the live record before the next
\* dispatch, so once a record has been saved the saved record equals the live
\* record whenever main sees ChoiceMenu or Running; the step that dispatches
\* SelectedValue saves nothing.
C17_CommitsAreSaved ==
    /\ []( /\ (Alive /\ event \in {Some(SubmitValue), Some(SelectedNone)})
              => saved = Some(configuration)
           /\ (Alive /\ saved # None /\ state \in {"ChoiceMenu", "Running"})
              => saved = Some(configuration) )
    /\ [][ (dispatches' # dispatches /\ event' = Some(SelectedValue))
           => saved' = saved ]_vars

\* C17's case: a port was committed through SelectedValue and SubmitValue,
\* saved, and main then went on to Running with the saved record the live one.
C17_Witness ==
    /\ Alive
    /\ event = Some(StartServer)
    /\ state = "Running"
    /\ configuration.port = Some(25565)
    /\ saved = Some(configuration)

\* A u16 that is a valid port.
ValidPort(port) == port # None /\ port[1] \in 1..U16_MAX

\* C21: in main's loop, while editor_state is NumberInput, text that is no
\* number, is out of the u16 range or is zero yields no payload and so no
\* dispatch: the step leaves the machine as it is and the prompt comes again;
\* a step from NumberInput that does dispatch stores a port in 1..65535, and
\* no record main has saved holds port 0.
C21_InvalidPortTextIsNotDispatched ==
    /\ []( /\ number_input_payload(<< "a", "b", "c" >>) = None
           /\ number_input_payload(<< "-", "1" >>) = None
           /\ number_input_payload(<< "7", "0", "0", "0", "0" >>) = None
           /\ number_input_payload(<< "0" >>) = None
           /\ number_input_payload(<< "2", "5", "5", "6", "5" >>)
                 = Some(Payload_ConfigurationOptionType(OptionU16(Some(25565))))
           /\ saved # None /\ saved[1].port # None => ValidPort(saved[1].port)
           /\ ValidPort(configuration.port) \/ configuration.port = None )
    /\ [][ editor_state = Some("NumberInput")
           => \/ /\ dispatches' = dispatches
                 /\ state' = state
                 /\ editor_state' = editor_state
                 /\ selected_configuration_option' = selected_configuration_option
                 /\ configuration' = configuration
              \/ /\ dispatches' = dispatches + 1
                 /\ event' = Some(SubmitValue)
                 /\ ValidPort(configuration'.port) ]_vars

\* C21's case: main is at the NumberInput prompt for port, where among the
\* texts that can be typed some yield no payload.
C21_Witness ==
    /\ Alive
    /\ state = "EditingConfiguration"
    /\ editor_state = Some("NumberInput")
    /\ selected_configuration_option = Some(get_config_option_info[7])
    /\ \E result \in NumberInputs : number_input_payload(result) = None

\* C22: in main's loop, a step taken in Running launches the server with the
\* live record and dispatches Exit, so Running is followed at once by Exited;
\* after a launch the machine is Exited, nothing is launched again and the
\* record and the saved file stay as they are; Running is entered only from
\* ChoiceMenu by StartServer.
C22_RunningLaunchesOnceThenExits ==
    /\ [](launched # None => state = "Exited")
    /\ [][ state = "Running"
           => /\ state' = "Exited"
              /\ event' = Some(Exit)
              /\ launched' = Some(command_string(configuration)) ]_vars
    /\ [][ (state' = "Running" /\ state # "Running")
           => (state = "ChoiceMenu" /\ event' = Some(StartServer)) ]_vars
    /\ [][ launched # None
           => UNCHANGED << launched, configuration, saved >> ]_vars

\* C23: in every state reached by dispatches with payloads of any kind, a
\* typed value with SelectedOption in ChoiceMenu included, app_state
\* EditingConfiguration comes with both an editor state and a selected option.
C23_EditingHasEditorAndOption ==
    (~panicked /\ state = "EditingConfiguration")
    => (editor_state # None /\ selected_configuration_option # None)

\* The SubmitValue payloads main builds at the prompt of editor state es.
ShellPayloads(es) ==
    CASE es = "SelectOnOff" -> { select_on_off_payload(result) : result \in {0, 1} }
      [] es = "NumberInput" ->
             { number_input_payload(result) : result \in NumberInputs } \ { None }
      [] es = "TextInput"   -> { text_input_payload(result) : result \in TextValues }

\* C24: in main's loop dispatch never aborts, and at every prompt that leads
\* to SubmitValue an option is selected and each payload main can build there
\* is of the variant of the selected option's field, so the dispatch does not
\* abort and leaves that field holding the submitted value.
C24_ShellKeepsTheContract ==
    /\ ~panicked
    /\ (Looping /\ editor_state \in SubmitStates)
       => /\ selected_configuration_option # None
          /\ \A p \in ShellPayloads(editor_state[1]) :
                LET property == selected_configuration_option[1].property
                    after == dispatch(machine, SubmitValue, p)
                IN  /\ ~after.panicked
                    /\ p[1].value.kind = get(configuration, property).kind
                    /\ SameValue(get(after.configuration, property), p[1].value)

\* C24's case: main has committed a text typed at the TextInput prompt for
\* world; the field holds it, nothing has panicked.
C24_Witness ==
    /\ Alive
    /\ event = Some(SubmitValue)
    /\ state = "ChoiceMenu"
    /\ configuration.world = Some("survival")
    /\ selected_configuration_option = None

\* How many editor states can still follow es within one edit.
Rank(es) ==
    IF es = None THEN 0
    ELSE IF es = Some("SelectValueOrNone") THEN 2
    ELSE 1

\* C25: while an option of the catalogue is being edited, a dispatch changes
\* editor_state only from SelectValueOrNone to NumberInput or TextInput, or
\* to absent, and only by an editor event: never back to SelectValueOrNone
\* nor between NumberInput, TextInput and SelectOnOff, so an edit ends after
\* at most two changes; editor_state becomes absent exactly when app_state
\* becomes ChoiceMenu, and app_state never goes from EditingConfiguration to
\* Running or Exited.
C25_EditorStatesNeverCycle ==
    ( /\ ~panicked
      /\ state = "EditingConfiguration"
      /\ editor_state # None
      /\ selected_configuration_option # None
      /\ selected_configuration_option[1] \in Catalogue )
    => \A e \in Event, p \in Payloads :
          LET after == dispatch(machine, e, p)
          IN  /\ after.state \in {"EditingConfiguration", "ChoiceMenu"}
              /\ (after.editor_state = None) <=> (after.state = "ChoiceMenu")
              /\ after.editor_state # editor_state
                 => /\ e.kind = "EditorEvent"
                    /\ Rank(after.editor_state) < Rank(editor_state)
                    /\ after.editor_state # None
                       => /\ editor_state = Some("SelectValueOrNone")
                          /\ after.editor_state
                                \in {Some("NumberInput"), Some("TextInput")}

\* C25's case: the universe option of the catalogue went through
\* SelectValueOrNone and TextInput and the edit ended in ChoiceMenu with the
\* third dispatch.
C25_Witness ==
    /\ ~panicked
    /\ event = Some(SubmitValue)
    /\ dispatches = 3
    /\ state = "ChoiceMenu"
    /\ editor_state = None
    /\ configuration.universe = Some("survival")

====
